---------------------------- MODULE Spec2Model ----------------------------
(***************************************************************************)
(* Model of the V/Hz induction-motor controller of the motif crate:        *)
(* the rate limiter, the space-vector transforms, the PWM modulator and    *)
(* the controller tick (src/src/control/...), together with the older      *)
(* variants kept in the repository (src/src/lib.rs, src/src/induction/).   *)
(*                                                                         *)
(* Arithmetic.  The program computes in f32.  The model computes exactly   *)
(* in the field Q(sqrt 3): a number is a triple <<a, b, d>> that stands    *)
(* for (a + b*sqrt(3)) / d with d > 0 and gcd(a, b, d) = 1.  The constant  *)
(* sqrt(3) of the source is therefore exact; PI is the rational 355/113.   *)
(* Rounding is not modelled: every property below is a property of the     *)
(* algorithm over the reals.                                               *)
(***************************************************************************)
EXTENDS Integers, Sequences, FiniteSets, TLC

----------------------------------------------------------------------------
(* Exact arithmetic in Q(sqrt 3).                                          *)

Abs(n) == IF n < 0 THEN -n ELSE n

\* F(v) with v evaluated first: a sequence point.  TLC evaluates the
\* arguments of an operator where they are first used, so a chain of LET
\* definitions nests as deep as it is long; a bound variable holds a value.
Strict(v, F(_)) == CHOOSE r \in {F(x) : x \in {v}} : TRUE

RECURSIVE Gcd(_, _)
Gcd(m, n) == IF n = 0 THEN m ELSE Gcd(n, m % n)

\* (a + b*sqrt3)/d in lowest terms with a positive denominator.
NormV(t) ==
    LET g == Gcd(Gcd(Abs(t[1]), Abs(t[2])), Abs(t[3]))
        s == IF t[3] < 0 THEN -g ELSE g
    IN  <<t[1] \div s, t[2] \div s, t[3] \div s>>
Norm(a, b, d) == Strict(<<a, b, d>>, NormV)

Q(n, d) == Norm(n, 0, d)
R(n)  == <<n, 0, 1>>
Zero    == <<0, 0, 1>>
One     == <<1, 0, 1>>
Two     == <<2, 0, 1>>
Half    == <<1, 0, 2>>

Neg(x) == <<-x[1], -x[2], x[3]>>

AddV(p) ==
    LET x  == p[1]
        y  == p[2]
        g  == Gcd(x[3], y[3])
        xm == y[3] \div g
        ym == x[3] \div g
    IN  Norm(x[1] * xm + y[1] * ym, x[2] * xm + y[2] * ym, x[3] * xm)
Add(x, y) == Strict(<<x, y>>, AddV)

Sub(x, y) == Add(x, Neg(y))

\* Cross-cancel first so that intermediate products stay small.
MulV(p) ==
    LET x  == p[1]
        y  == p[2]
        g1 == Gcd(Gcd(Abs(x[1]), Abs(x[2])), y[3])
        g2 == Gcd(Gcd(Abs(y[1]), Abs(y[2])), x[3])
        xa == x[1] \div g1
        xb == x[2] \div g1
        ya == y[1] \div g2
        yb == y[2] \div g2
        xd == x[3] \div g2
        yd == y[3] \div g1
    IN  Norm(xa * ya + 3 * xb * yb, xa * yb + xb * ya, xd * yd)
Mul(x, y) == Strict(<<x, y>>, MulV)

\* 1/x for x # 0: the conjugate over the field norm a^2 - 3 b^2.
Inv(x) ==
    LET g == Gcd(Abs(x[1]), Abs(x[2]))
        a == x[1] \div g
        b == x[2] \div g
    IN  IF b = 0
        THEN Norm(x[3], 0, x[1])
        ELSE IF a = 0
        THEN Norm(0, x[3], 3 * x[2])
        ELSE Mul(Norm(x[3], 0, g), Norm(a, -b, a * a - 3 * b * b))

Div(x, y) == Mul(x, Inv(y))

\* Is p/q > sqrt(3) (1), = impossible, or < sqrt(3) (-1), for p >= 0, q > 0.
\* Continued-fraction comparison: no squares, so no overflow.
RECURSIVE CmpSqrt3(_, _)
CmpSqrt3(p, q) ==
    LET k == p \div q
        r == p % q
    IN  IF k >= 2 THEN 1
        ELSE IF k = 0 THEN -1
        ELSE IF r = 0 THEN -1
        ELSE -CmpSqrt3(2 * q - r, r)

\* The sign of a number: -1, 0 or 1.
Sign(x) ==
    LET a == x[1]
        b == x[2]
    IN  IF a = 0 /\ b = 0 THEN 0
        ELSE IF a >= 0 /\ b >= 0 THEN 1
        ELSE IF a <= 0 /\ b <= 0 THEN -1
        ELSE IF a > 0 THEN CmpSqrt3(a, -b)
        ELSE -CmpSqrt3(-a, b)

Lt(x, y) == Sign(Sub(x, y)) < 0
Le(x, y) == Sign(Sub(x, y)) <= 0
Gt(x, y) == Lt(y, x)
Ge(x, y) == Le(y, x)

\* f32::max and f32::min
Max(x, y) == IF Lt(x, y) THEN y ELSE x
Min(x, y) == IF Lt(y, x) THEN y ELSE x

AbsR(x) == IF Sign(x) < 0 THEN Neg(x) ELSE x

\* The integer part of x >= 0 (rounded toward zero).
RECURSIVE FloorFrom(_, _)
FloorFrom(x, n) == IF Lt(x, R(n + 1)) THEN n ELSE FloorFrom(x, n + 1)

RECURSIVE FloorDown(_, _)
FloorDown(x, n) == IF Le(R(n), x) THEN n ELSE FloorDown(x, n - 1)

\* A lower estimate of floor(x) for x >= 0 from 1.732 < sqrt 3 < 1.7321.
TruncPos(x) ==
    LET est == IF x[2] >= 0
               THEN (x[1] + (x[2] * 17) \div 10) \div x[3]
               ELSE (x[1] + (x[2] * 18) \div 10) \div x[3] - 1
        lo  == IF est < 0 THEN 0 ELSE est
    IN  FloorFrom(x, FloorDown(x, lo))

Trunc(x) == IF Sign(x) < 0 THEN -TruncPos(Neg(x)) ELSE TruncPos(x)

\* Rust's % on f32 (C fmod): the result has the sign of the dividend.
Fmod(x, m) == Strict(Trunc(Div(x, m)), LAMBDA n : Sub(x, Mul(R(n), m)))

----------------------------------------------------------------------------
(* binary32 arithmetic, bit for bit.                                       *)
(* An f32 is <<s, m, e>>: the number s * m * 2^e with s in {1, -1} and     *)
(* 2^23 <= m < 2^24, or <<1, 0, 0>> for zero.  Every operation rounds the  *)
(* exact result to the nearest f32, ties to even, as IEEE 754 does.        *)
(* Infinities, NaN, subnormal numbers and the sign of zero are left out:   *)
(* the exponent is unbounded.                                              *)

FZero == <<1, 0, 0>>

RECURSIVE BitLen(_)
BitLen(n) == IF n = 0 THEN 0 ELSE 1 + BitLen(n \div 2)

\* The f32 nearest to s * (n + f) * 2^e, where 0 <= f < 1 and f > 0 iff
\* sticky.  If sticky, n has at least 26 bits.
FRoundV(t) ==
    LET s == t[1]
        n == t[2]
        e == t[3]
        sticky == t[4]
        k == BitLen(n) - 24
    IN  IF n = 0 THEN FZero
        ELSE IF k <= 0 THEN <<s, n * 2^(-k), e + k>>
        ELSE LET q    == n \div 2^k
                 r    == n % 2^k
                 half == 2^(k - 1)
                 up   == r > half \/ (r = half /\ (sticky \/ q % 2 = 1))
                 q1   == IF up THEN q + 1 ELSE q
             IN  IF q1 = 2^24 THEN <<s, 2^23, e + k + 1>> ELSE <<s, q1, e + k>>

FRound(s, n, e, sticky) == Strict(<<s, n, e, sticky>>, FRoundV)

\* An integer as f32 (exact below 2^24).
FInt(n) == FRound(IF n < 0 THEN -1 ELSE 1, Abs(n), 0, FALSE)

FNeg(x) == IF x[2] = 0 THEN x ELSE <<-x[1], x[2], x[3]>>

\* x + y for x[3] >= y[3] and both nonzero: y is shifted right by the
\* exponent difference below three guard bits, the bits lost are sticky.
FAddOrdered(x, y) ==
    LET d      == x[3] - y[3]
        n1     == x[2] * 8
        n2     == IF d > 27 THEN 0 ELSE (y[2] * 8) \div 2^d
        sticky == IF d > 27 THEN TRUE ELSE (y[2] * 8) % 2^d # 0
    IN  IF x[1] = y[1]
        THEN FRound(x[1], n1 + n2, x[3] - 3, sticky)
        ELSE IF n1 >= n2
        THEN FRound(x[1], n1 - n2 - (IF sticky THEN 1 ELSE 0), x[3] - 3, sticky)
        ELSE FRound(y[1], n2 - n1, x[3] - 3, FALSE)

FAddV(p) ==
    LET x == p[1]
        y == p[2]
    IN  IF x[2] = 0 THEN y
        ELSE IF y[2] = 0 THEN x
        ELSE IF x[3] >= y[3] THEN FAddOrdered(x, y) ELSE FAddOrdered(y, x)

FAdd(x, y) == Strict(<<x, y>>, FAddV)
FSub(x, y) == FAdd(x, FNeg(y))

\* x * y: the 48-bit product of the mantissas from 12-bit halves.
FMulV(p) ==
    LET x   == p[1]
        y   == p[2]
        a1  == x[2] \div 4096
        a0  == x[2] % 4096
        b1  == y[2] \div 4096
        b0  == y[2] % 4096
        mid == a1 * b0 + a0 * b1
        low == (mid % 4096) * 4096 + a0 * b0
        hi  == a1 * b1 + mid \div 4096 + low \div 2^24
        l24 == low % 2^24
    IN  IF x[2] = 0 \/ y[2] = 0 THEN FZero
        ELSE FRound(x[1] * y[1], hi * 16 + l24 \div 2^20, x[3] + y[3] + 20,
                    l24 % 2^20 # 0)

FMul(x, y) == Strict(<<x, y>>, FMulV)

\* Long division: st = <<q, r, b, i>> with i quotient bits still to come.
RECURSIVE DivBits(_)
DivBits(st) ==
    IF st[4] = 0 THEN st
    ELSE LET r2  == 2 * st[2]
             bit == IF r2 >= st[3] THEN 1 ELSE 0
         IN  DivBits(<<2 * st[1] + bit, r2 - bit * st[3], st[3], st[4] - 1>>)

\* x / y for y # 0: floor(mx * 2^25 / my) and whether a remainder is left.
FDivV(p) ==
    LET x  == p[1]
        y  == p[2]
        st == DivBits(<<x[2] \div y[2], x[2] % y[2], y[2], 25>>)
    IN  IF x[2] = 0 THEN FZero
        ELSE FRound(x[1] * y[1], st[1], x[3] - y[3] - 25, st[2] # 0)

FDiv(x, y) == Strict(<<x, y>>, FDivV)

\* Subtraction never rounds a nonzero difference to zero or past it.
FLt(x, y) == LET d == FSub(x, y) IN d[2] # 0 /\ d[1] = -1
FLe(x, y) == ~FLt(y, x)

\* f32::max and f32::min
FMax(x, y) == IF FLt(x, y) THEN y ELSE x
FMin(x, y) == IF FLt(y, x) THEN y ELSE x

FOne   == FInt(1)
FTwo   == FInt(2)
FHalf  == <<1, 2^23, -24>>
\* 3f32.sqrt(): the f32 nearest to sqrt 3, bits 0x3FDDB3D7.
FSqrt3 == <<1, 14529495, -23>>

----------------------------------------------------------------------------
(* Complex32: a record [re, im] of two numbers.                            *)

Cx(re, im) == [re |-> re, im |-> im]
CZero      == Cx(Zero, Zero)

\* From<f32> for Complex32 (x.into()): the imaginary part is zero.
FromReal(x) == Cx(x, Zero)

CAdd(z, w) == Cx(Add(z.re, w.re), Add(z.im, w.im))
CSub(z, w) == Cx(Sub(z.re, w.re), Sub(z.im, w.im))
CMul(z, w) == Cx(Sub(Mul(z.re, w.re), Mul(z.im, w.im)),
                 Add(Mul(z.re, w.im), Mul(z.im, w.re)))
CConj(z)   == Cx(z.re, Neg(z.im))

\* f32 * Complex32 and Complex32 / f32 scale both parts.
CScale(r, z) == Cx(Mul(r, z.re), Mul(r, z.im))
CDivR(z, r)  == Cx(Div(z.re, r), Div(z.im, r))

\* f32 + Complex32, Complex32 - f32, f32 - Complex32 act on the real part.
CAddR(r, z) == Cx(Add(r, z.re), z.im)
CSubR(z, r) == Cx(Sub(z.re, r), z.im)
RSubC(r, z) == Cx(Sub(r, z.re), Neg(z.im))

\* |z|^2, which is what powi(z.abs(), 2) computes over the reals.
AbsSqr(z) == Add(Mul(z.re, z.re), Mul(z.im, z.im))

\* Complex32 / Complex32, and f32 / Complex32 with the f32 as a complex.
CDiv(z, w) == CScale(Inv(AbsSqr(w)), CMul(z, CConj(w)))

\* Multiplication by the imaginary unit.
MulJ(z) == Cx(Neg(z.im), z.re)

----------------------------------------------------------------------------
(* Constants of the source.                                                *)

PI    == Q(355, 113)
TwoPI == Mul(Two, PI)
Sqrt3 == <<0, 1, 1>>
Three == R(3)

\* Float::exp on f32, the real exponential.  It is transcendental, so the
\* model keeps one significant bit of it: ExpF(x) = 2^k for the integer k
\* nearest to x / ln 2 (ln 2 taken as 61/88), with |k| capped at MaxExp2.
\* ExpF(0) = 1 exactly, and ExpF is positive and monotone.
MaxExp2 == 6

Ln2 == Q(61, 88)

RECURSIVE Pow2(_)
Pow2(k) == IF k = 0 THEN 1 ELSE 2 * Pow2(k - 1)

ExpF(x) ==
    Strict(Div(x, Ln2), LAMBDA t :
    Strict(Trunc(Add(t, IF Sign(t) < 0 THEN Neg(Half) ELSE Half)), LAMBDA k0 :
    Strict(IF k0 > MaxExp2 THEN MaxExp2
           ELSE IF k0 < -MaxExp2 THEN -MaxExp2 ELSE k0, LAMBDA k :
        IF k >= 0 THEN R(Pow2(k)) ELSE Q(1, Pow2(-k)))))

----------------------------------------------------------------------------
(* Space-vector transforms (src/src/lib.rs).                               *)

\* fn complex_to_abc(u: Complex32) -> [f32; 3]
complex_to_abc(u) ==
    << u.re,
       Mul(Half, Add(Neg(u.re), Mul(Sqrt3, u.im))),
       Mul(Half, Sub(Neg(u.re), Mul(Sqrt3, u.im))) >>

\* fn abc2complex(u: [f32; 3]) -> f32 (abc_to_complex in the later crates).
\* The factor "1." is the real number one, so the result is one real number:
\* the quadrature term (u[1] - u[2]) / sqrt 3 is added to the direct term.
abc_to_complex(u) ==
    Add(Sub(Mul(Q(2, 3), u[1]), Div(Add(u[2], u[3]), Three)),
        Div(Mul(One, Sub(u[2], u[3])), Sqrt3))

----------------------------------------------------------------------------
(* Rate limiter (src/src/control/rate_limiter.rs).                         *)

\* Variants of rate_limit with a plausible slip, for mutation runs: the
\* falling rate is not limited; the two limited branches are exchanged.
rate_limit_rising_only(limit, y, t_s, u) ==
    IF Gt(Div(Sub(u, y), t_s), limit) THEN Add(y, Mul(t_s, limit)) ELSE u

rate_limit_exchanged(limit, y, t_s, u) ==
    IF Gt(Div(Sub(u, y), t_s), limit) THEN Sub(y, Mul(t_s, limit))
    ELSE IF Lt(Div(Sub(u, y), t_s), Neg(limit)) THEN Add(y, Mul(t_s, limit))
    ELSE u

\* A variant of rate_limit with a plausible slip, for mutation runs: a
\* rate within the limit keeps y instead of taking u.
rate_limit_holding(limit, y, t_s, u) ==
    Strict(Div(Sub(u, y), t_s), LAMBDA rate :
        IF Gt(rate, limit) THEN Add(y, Mul(t_s, limit))
        ELSE IF Lt(rate, Neg(limit)) THEN Sub(y, Mul(t_s, limit))
        ELSE y)

\* RateLimiter::rate_limit(&mut self, t_s, u) for self = [limit, y]:
\* the new y, which is also the value returned.
rate_limit(limit, y, t_s, u) ==
    Strict(Div(Sub(u, y), t_s), LAMBDA rate :
        IF Gt(rate, limit) THEN Add(y, Mul(t_s, limit))
        ELSE IF Lt(rate, Neg(limit)) THEN Sub(y, Mul(t_s, limit))
        ELSE u)

\* rate_limit in binary32, operation by operation as the source writes it.
rate_limit_f32(limit, y, t_s, u) ==
    Strict(FDiv(FSub(u, y), t_s), LAMBDA rate :
        IF FLt(limit, rate) THEN FAdd(y, FMul(t_s, limit))
        ELSE IF FLt(rate, FNeg(limit)) THEN FSub(y, FMul(t_s, limit))
        ELSE u)

\* The number an f32 stands for.
FVal(x) ==
    IF x[3] >= 0 THEN R(x[1] * x[2] * 2^x[3]) ELSE Q(x[1] * x[2], 2^(-x[3]))

----------------------------------------------------------------------------
(* PWM modulator (src/src/control/pwm.rs).                                 *)

Max3(v) == Max(Max(v[1], v[2]), v[3])
Min3(v) == Min(Min(v[1], v[2]), v[3])

\* The phase voltages after the zero-sequence voltage u_0 is subtracted.
Symmetrized(u_s_ref) ==
    Strict(complex_to_abc(u_s_ref), LAMBDA u_abc :
    Strict(Mul(Half, Add(Max3(u_abc), Min3(u_abc))), LAMBDA u_0 :
        << Sub(u_abc[1], u_0), Sub(u_abc[2], u_0), Sub(u_abc[3], u_0) >>))

\* m = (2. / u_dc) * max(u_abc), for the symmetrized u_abc
ModulationIndex(u_sym, u_dc) == Mul(Div(Two, u_dc), Max3(u_sym))

\* pub fn duty_ratios(u_s_ref: Complex32, u_dc: f32) -> [f32; 3]
duty_ratios(u_s_ref, u_dc) ==
    Strict(Symmetrized(u_s_ref), LAMBDA u_sym :
    Strict(ModulationIndex(u_sym, u_dc), LAMBDA m :
    Strict(IF Gt(m, One)
           THEN << Div(u_sym[1], m), Div(u_sym[2], m), Div(u_sym[3], m) >>
           ELSE u_sym, LAMBDA u_abc :
        << Add(Div(u_abc[1], u_dc), Half),
           Add(Div(u_abc[2], u_dc), Half),
           Add(Div(u_abc[3], u_dc), Half) >>)))

\* The same three steps in binary32, operation by operation as the source
\* writes them: complex_to_abc, the symmetrization, m and the scaling.
FCx(re, im) == [re |-> FInt(re), im |-> FInt(im)]

complex_to_abc_f32(u) ==
    Strict(FMul(FSqrt3, u.im), LAMBDA q :
        << u.re,
           FMul(FHalf, FAdd(FNeg(u.re), q)),
           FMul(FHalf, FSub(FNeg(u.re), q)) >>)

FMax3(v) == FMax(FMax(v[1], v[2]), v[3])
FMin3(v) == FMin(FMin(v[1], v[2]), v[3])

Symmetrized_f32(u_s_ref) ==
    Strict(complex_to_abc_f32(u_s_ref), LAMBDA u_abc :
    Strict(FMul(FHalf, FAdd(FMax3(u_abc), FMin3(u_abc))), LAMBDA u_0 :
        << FSub(u_abc[1], u_0), FSub(u_abc[2], u_0), FSub(u_abc[3], u_0) >>))

ModulationIndex_f32(u_sym, u_dc) == FMul(FDiv(FTwo, u_dc), FMax3(u_sym))

duty_ratios_f32(u_s_ref, u_dc) ==
    Strict(Symmetrized_f32(u_s_ref), LAMBDA u_sym :
    Strict(ModulationIndex_f32(u_sym, u_dc), LAMBDA m :
    Strict(IF FLt(FOne, m)
           THEN << FDiv(u_sym[1], m), FDiv(u_sym[2], m), FDiv(u_sym[3], m) >>
           ELSE u_sym, LAMBDA u_abc :
        << FAdd(FDiv(u_abc[1], u_dc), FHalf),
           FAdd(FDiv(u_abc[2], u_dc), FHalf),
           FAdd(FDiv(u_abc[3], u_dc), FHalf) >>)))

\* theta_comp = theta + 1.5 * t_s * w
ThetaComp(t_s, theta, w) == Add(theta, Mul(Mul(Q(3, 2), t_s), w))

\* Pwm::output(&self, t_s, u_ref, u_dc, theta, w) -> ([f32; 3], Complex32).
\* The controller is built with Pwm::default(), is_six_step = false, so the
\* six-step branch is not taken.  Both exp factors are real scalings.
PwmOutput(t_s, u_ref, u_dc, theta, w) ==
    Strict(ThetaComp(t_s, theta, w), LAMBDA theta_comp :
    Strict(CScale(ExpF(theta_comp), u_ref), LAMBDA u_stator :
    Strict(duty_ratios(u_stator, u_dc), LAMBDA d_abc_ref :
    Strict(Mul(abc_to_complex(d_abc_ref), u_dc), LAMBDA u_s_ref_lim :
    Strict(Mul(ExpF(Neg(theta_comp)), u_s_ref_lim), LAMBDA u_lim :
        [d_abc |-> d_abc_ref, u_ref_lim |-> FromReal(u_lim)])))))

\* A variant of Pwm::update with a plausible slip, for mutation runs: the
\* update also switches the modulator to six-step operation.
PwmUpdate_setting_six_step(p, u_ref_lim) ==
    [p EXCEPT !.realized_voltage = CScale(Half, CAdd(p.u_ref_lim_old, u_ref_lim)),
              !.u_ref_lim_old    = u_ref_lim,
              !.is_six_step      = TRUE]

\* A variant of Pwm::update with a plausible slip, for mutation runs: the
\* old value is overwritten before the midpoint is formed.
PwmUpdate_overwriting_first(p, u_ref_lim) ==
    [p EXCEPT !.realized_voltage = CScale(Half, CAdd(u_ref_lim, u_ref_lim)),
              !.u_ref_lim_old    = u_ref_lim]

\* Pwm::update(&mut self, u_ref_lim): the new modulator state.
PwmUpdate(p, u_ref_lim) ==
    [p EXCEPT !.realized_voltage = CScale(Half, CAdd(p.u_ref_lim_old, u_ref_lim)),
              !.u_ref_lim_old    = u_ref_lim]

----------------------------------------------------------------------------
(* V/Hz controller (src/src/control/induction/vhz.rs).                     *)

\* Builder::build: the controller built from r_r, l_m and l_sgm.
Build(r_r, l_m, l_sgm) ==
    LET w_rb == Div(Mul(r_r, Add(l_m, l_sgm)), Mul(l_sgm, l_m))
    IN  [ i_s_ref      |-> CZero,
          psi_s_ref    |-> Cx(Q(104, 100), One),
          w_r_ref      |-> CZero,
          l_sgm        |-> l_sgm,
          r_r          |-> r_r,
          k_w          |-> Cx(R(4), One),
          rate_limiter |-> [limit |-> Mul(Mul(Two, PI), R(120)), y |-> Zero],
          theta_s      |-> Zero,
          pwm          |-> [is_six_step      |-> FALSE,
                            realized_voltage |-> CZero,
                            u_ref_lim_old    |-> CZero],
          l_m          |-> l_m,
          k_u          |-> One,
          r_s          |-> Q(37, 10),
          alpha_i      |-> Mul(Q(1, 10), w_rb),
          alpha_f      |-> Mul(Q(1, 10), w_rb) ]

\* Builder::default().build()
DefaultControl == Build(Q(21, 10), Q(224, 1000), Q(21, 100))

\* psi_r_ref = psi_s_ref - l_sgm * i_s_ref
PsiRRef(self) == CSub(self.psi_s_ref, CScale(self.l_sgm, self.i_s_ref))

\* InductionMotorVhzControl::stator_freq(&self, w_s_ref, i_s) -> [w_s, w_r]
stator_freq(self, w_s_ref, i_s) ==
    Strict(PsiRRef(self), LAMBDA psi_r_ref :
    Strict(AbsSqr(psi_r_ref), LAMBDA psi_r_ref_sqr :
        IF Gt(psi_r_ref_sqr, Zero)
        THEN Strict(Div(Mul(self.r_r, CMul(i_s, CConj(psi_r_ref)).im),
                        psi_r_ref_sqr), LAMBDA w_r :
             Strict(CAdd(w_s_ref, CMul(self.k_w, CSubR(self.w_r_ref, w_r))),
                    LAMBDA w_s :
                 [w_s |-> w_s, w_r |-> FromReal(w_r)]))
        ELSE [w_s |-> CZero, w_r |-> CZero]))

\* The older stator_freq(&self, i_s, w_s_ref) of src/src/induction/vhz.rs
\* (and src/src/lib.rs): psi_r_ref_sqr is the complex square
\* psi_r_ref.powi(2), the test is on its real part, and w_r is complex.
stator_freq_legacy(self, i_s, w_s_ref) ==
    Strict(PsiRRef(self), LAMBDA psi_r_ref :
    Strict(CMul(psi_r_ref, psi_r_ref), LAMBDA psi_r_ref_sqr :
        IF Gt(psi_r_ref_sqr.re, Zero)
        THEN Strict(CDiv(FromReal(Mul(self.r_r,
                                      CMul(i_s, CConj(psi_r_ref)).im)),
                         psi_r_ref_sqr), LAMBDA w_r :
             Strict(CAdd(w_s_ref, CMul(self.k_w, CSub(self.w_r_ref, w_r))),
                    LAMBDA w_s :
                 [w_s |-> w_s, w_r |-> w_r]))
        ELSE [w_s |-> CZero, w_r |-> CZero]))

\* A variant of voltage_reference with a plausible slip, for mutation runs:
\* the constant term "1." of i_s_ref0 is left out.
voltage_reference_without_offset(self, w_s, i_s) ==
    Strict(CDivR(self.psi_s_ref, Add(self.l_m, self.l_sgm)), LAMBDA i_sd_nom :
    Strict(CAdd(i_sd_nom, Cx(Zero, self.i_s_ref.im)), LAMBDA i_s_ref0 :
    Strict(CScale(Mul(self.k_u, self.l_sgm),
                  CAddR(Div(self.r_r, self.l_m), CScale(One, w_s))), LAMBDA k :
    Strict(CAdd(CScale(self.r_s, i_s_ref0),
                CMul(CScale(One, w_s), self.psi_s_ref)), LAMBDA feedforward :
        CAdd(feedforward, CMul(k, CSubR(self.i_s_ref, i_s)))))))

\* InductionMotorVhzControl::voltage_reference(&self, w_s, i_s: f32).
\* Each factor "1." is the real number one.
voltage_reference(self, w_s, i_s) ==
    Strict(CDivR(self.psi_s_ref, Add(self.l_m, self.l_sgm)), LAMBDA i_sd_nom :
    Strict(CAdd(i_sd_nom, Cx(One, self.i_s_ref.im)), LAMBDA i_s_ref0 :
    Strict(CScale(Mul(self.k_u, self.l_sgm),
                  CAddR(Div(self.r_r, self.l_m), CScale(One, w_s))), LAMBDA k :
    Strict(CAdd(CScale(self.r_s, i_s_ref0),
                CMul(CScale(One, w_s), self.psi_s_ref)), LAMBDA feedforward :
        CAdd(feedforward, CMul(k, CSubR(self.i_s_ref, i_s)))))))

\* A variant of the wrap with a plausible slip, for mutation runs: the
\* final "- PI" is left out.
WrapAngle_without_offset(theta) ==
    Strict(Add(theta, PI), LAMBDA shifted : Fmod(shifted, TwoPI))

\* theta_s = (theta_s + PI) % (2. * PI) - PI
WrapAngle(theta) ==
    Strict(Add(theta, PI), LAMBDA shifted : Sub(Fmod(shifted, TwoPI), PI))

\* Control::control(&mut self, drive, w_m_ref, t_s) -> [f32; 3], where drive
\* returns the phase currents i_s_abc and the DC-bus voltage u_dc.
\* The result carries the new controller, the duty ratios returned and the
\* intermediate values of the call.
control(self, i_s_abc, u_dc, w_m_ref_in, t_s) ==
    Strict(rate_limit(self.rate_limiter.limit, self.rate_limiter.y,
                      t_s, w_m_ref_in), LAMBDA w_m_ref :
    Strict(Mul(ExpF(Mul(Neg(One), self.theta_s)), abc_to_complex(i_s_abc)),
           LAMBDA i_s :
    Strict(CAddR(w_m_ref, self.w_r_ref), LAMBDA w_s_ref :
    Strict(stator_freq(self, w_s_ref, FromReal(i_s)), LAMBDA sf :
    Strict(voltage_reference(self, sf.w_s, i_s), LAMBDA u_s_ref :
    Strict(PwmOutput(t_s, u_s_ref, u_dc, self.theta_s, sf.w_s.re), LAMBDA po :
    Strict(Add(self.theta_s, CScale(t_s, sf.w_s).re), LAMBDA theta1 :
        [ self |->
            [self EXCEPT
               !.rate_limiter.y = w_m_ref,
               !.pwm     = PwmUpdate(self.pwm, po.u_ref_lim),
               !.i_s_ref = CAdd(self.i_s_ref,
                                CScale(Mul(t_s, self.alpha_i),
                                       RSubC(i_s, self.i_s_ref))),
               !.w_r_ref = CAdd(self.w_r_ref,
                                CScale(Mul(t_s, self.alpha_f),
                                       CSub(sf.w_r, self.w_r_ref))),
               !.theta_s = WrapAngle(theta1)],
          d_abc   |-> po.d_abc,
          w_m_ref |-> w_m_ref,
          i_s     |-> i_s,
          w_s_ref |-> w_s_ref,
          w_s     |-> sf.w_s,
          w_r     |-> sf.w_r,
          u_s_ref |-> u_s_ref ])))))))

\* A variant of the sample period with a plausible slip, for mutation
\* runs: the stored time is not subtracted.
SamplePeriod_since_zero(self, t) == t

\* let t_s = t - self.t
SamplePeriod(self, t) == Sub(t, self.t)

\* The older InductionMotorVhzControl::control(&mut self, i_s_abc, u_dc,
\* w_m_ref, t) -> (f32, [f32; 3]) of src/src/induction/vhz.rs: the sample
\* period is the time since the stored time t, and stator_freq, declared
\* (i_s, w_s_ref), is called as stator_freq(w_s_ref, i_s.into()).
control_legacy(self, i_s_abc, u_dc, w_m_ref_in, t) ==
    Strict(SamplePeriod(self, t), LAMBDA t_s :
    Strict(rate_limit(self.rate_limiter.limit, self.rate_limiter.y,
                      t_s, w_m_ref_in), LAMBDA w_m_ref :
    Strict(Mul(ExpF(Mul(Neg(One), self.theta_s)), abc_to_complex(i_s_abc)),
           LAMBDA i_s :
    Strict(CAddR(w_m_ref, self.w_r_ref), LAMBDA w_s_ref :
    Strict(stator_freq_legacy(self, w_s_ref, FromReal(i_s)), LAMBDA sf :
    Strict(voltage_reference(self, sf.w_s, i_s), LAMBDA u_s_ref :
    Strict(PwmOutput(t_s, u_s_ref, u_dc, self.theta_s, sf.w_s.re), LAMBDA po :
    Strict(Add(self.theta_s, CScale(t_s, sf.w_s).re), LAMBDA theta1 :
        [ self |->
            [self EXCEPT
               !.t       = t,
               !.rate_limiter.y = w_m_ref,
               !.pwm     = PwmUpdate(self.pwm, po.u_ref_lim),
               !.i_s_ref = CAdd(self.i_s_ref,
                                CScale(Mul(t_s, self.alpha_i),
                                       RSubC(i_s, self.i_s_ref))),
               !.w_r_ref = CAdd(self.w_r_ref,
                                CScale(Mul(t_s, self.alpha_f),
                                       CSub(sf.w_r, self.w_r_ref))),
               !.theta_s = WrapAngle(theta1)],
          t_s     |-> t_s,
          d_abc   |-> po.d_abc,
          w_m_ref |-> w_m_ref,
          i_s     |-> i_s,
          w_s_ref |-> w_s_ref,
          w_s     |-> sf.w_s,
          w_r     |-> sf.w_r,
          u_s_ref |-> u_s_ref ]))))))))

\* The controller as motif-example/src/lib.rs configures it:
\* builder().r_r(0.).build() with r_s = 0, k_u = 0 and k_w = 0.
ExampleControl ==
    [Build(Zero, Q(224, 1000), Q(21, 100)) EXCEPT
        !.r_s = Zero, !.k_u = Zero, !.k_w = CZero]

\* The older Builder::build of src/src/induction/vhz.rs: the same fields
\* and the stored time t = 0.
BuildStamped(r_r, l_m, l_sgm) ==
    [x \in DOMAIN Build(r_r, l_m, l_sgm) \cup {"t"} |->
        IF x = "t" THEN Zero ELSE Build(r_r, l_m, l_sgm)[x]]

\* ExampleClass::new() of motif-example/src/lib.rs, which uses the older
\* controller: builder().r_r(0.).build() with r_s = 0, k_u = 0, k_w = 0.
StampedExampleControl ==
    [BuildStamped(Zero, Q(224, 1000), Q(21, 100)) EXCEPT
        !.r_s = Zero, !.k_u = Zero, !.k_w = CZero]

----------------------------------------------------------------------------
(* State.                                                                  *)

VARIABLES
    mode,    \* which program runs.  The sampling loop on a controller:
             \* "default" (default parameters, bench samples), "example"
             \* (the example's controller, wide samples), "ramp" (the
             \* example's controller, speed steps beyond the rate limit),
             \* "stamped" (the older, time-stamped controller).
             \* "limiter": a RateLimiter on its own.  "settle": a
             \* RateLimiter given the same input again and again;
             \* "settle32": the same with rl in binary32.
             \* "functions": calls
             \* of the free functions and of the controller's methods.
    ctl,     \* the InductionMotorVhzControl object
    rl,      \* a RateLimiter object: [limit, y]
    steps,   \* the number of calls made on ctl or rl
    obs      \* the last call: its name, arguments and results

vars == <<mode, ctl, rl, steps, obs>>

\* Bounds of the model.
MaxTicks == 2
MaxCalls == 3
MaxSettleCalls == 6

Zero3 == <<Zero, Zero, Zero>>
Ones3 == <<One, One, One>>

\* The samples a tick is given: phase currents, DC-bus voltage, speed
\* reference and sample period.
DefaultSamples ==
    { [i_s_abc |-> i, u_dc |-> R(540), w_m_ref |-> w, t_s |-> Q(1, 4000)] :
        i \in {Zero3, Ones3}, w \in {Zero, Q(1, 10), Q(-1, 10)} }

ExampleSamples ==
    { [i_s_abc |-> Zero3, u_dc |-> u, w_m_ref |-> w, t_s |-> t] :
        u \in {R(540), R(24)},
        w \in {R(-100), R(-8), Zero, R(8), R(100)},
        t \in {Q(1, 4), Q(1, 2)} }

RampSamples ==
    { [i_s_abc |-> i, u_dc |-> R(540), w_m_ref |-> w, t_s |-> t] :
        i \in {Zero3, <<One, Zero, Zero>>},
        w \in {R(-1000), Zero, R(1000)},
        t \in {Q(1, 1000), Q(1, 500)} }

Samples ==
    CASE mode = "default" -> DefaultSamples
      [] mode = "example" -> ExampleSamples
      [] mode = "ramp"    -> RampSamples

\* The samples of the older controller: the time since the last tick
\* stands for the time stamp t = self.t + dt.
StampedSamples ==
    { [i_s_abc |-> i, u_dc |-> R(540), w_m_ref |-> w, dt |-> d] :
        i \in {Zero3, <<One, Zero, Zero>>},
        w \in {R(-8), Zero, R(8), R(1000)},
        d \in {Q(1, 4), Q(1, 2)} }

\* RateLimiter::new(limit): y starts at 0.
NewRateLimiter(limit) == [limit |-> limit, y |-> Zero]

\* The limits, sample periods and inputs given to a RateLimiter on its own.
LimiterLimits  == {Zero, One, Mul(Mul(Two, PI), R(120))}
LimiterPeriods == {Q(1, 1000), Q(1, 4), One}
LimiterInputs  == {R(-1000), R(-1), Zero, Q(1, 8), R(1000)}

\* The limits, the sample period and the input of repeated calls.
SettleLimits  == {One, Mul(Mul(Two, PI), R(120))}
SettlePeriods == {Q(1, 4), One}
SettleInputs  == {R(-500), R(-1), Zero, Q(1, 8), One, R(3), R(500)}

\* The same in binary32, at magnitudes where an f32 is an even integer:
\* the limit, the sample periods and the inputs (2^24 and beyond).
SettleLimit32   == FInt(1)
SettlePeriods32 == {FInt(1), FInt(2), FInt(5), FInt(16777216)}
SettleInputs32  ==
    {FInt(n) : n \in {-10, 0, 10, 16777216, 16777220, 16777226}}

\* The voltage references (real and imaginary part, in volts) and DC-bus
\* voltages given to duty_ratios when it is called on its own.
VoltageGrid == {-1080, -540, -1, 0, 1, 540, 1080}
BusVoltages == {540, 24}

\* The controllers, stator frequency references and currents stator_freq
\* is called with on its own.  Every field of the older controller is
\* public, so its psi_s_ref can be set; the later one keeps it private.
FluxReferences == {Cx(Q(104, 100), One), CZero, Cx(One, Two)}
LegacyControls ==
    {[DefaultControl EXCEPT !.psi_s_ref = p] : p \in FluxReferences}
FrequencyReferences == {CZero, Cx(R(8), Zero)}
Currents == {CZero, Cx(One, Zero), Cx(Zero, One)}

\* The triples the transforms are called with, the controllers and the
\* arguments voltage_reference is called with on its own.
PhaseTriples ==
    { <<R(a), R(b), R(c)>> : a \in {-1, 0, 1}, b \in {-1, 0, 1, 2},
                             c \in {-1, 0, 1} }
VoltageControls == {DefaultControl, ExampleControl}
StatorFrequencies == {CZero, Cx(R(8), Zero), Cx(Zero, One), Cx(R(-8), Two)}
MeasuredCurrents == {Zero, One, R(-2)}

\* The angles the wrap is applied to on its own.
WrapAngles ==
    {R(n) : n \in {-50, -10, -7, -4, -1, 0, 1, 4, 7, 10, 50}}
        \cup {PI, Neg(PI), Mul(Three, PI), Neg(Mul(Three, PI)), Q(-1, 3)}

NoCall == [op |-> "none"]

\* The controller each program constructs.
ConstructedControl(m) ==
    CASE m = "default" -> DefaultControl
      [] m = "stamped" -> StampedExampleControl
      [] OTHER         -> ExampleControl

Init ==
    /\ mode \in {"default", "example", "ramp", "stamped", "limiter",
                 "settle", "settle32", "functions"}
    /\ ctl = ConstructedControl(mode)
    /\ rl \in IF mode = "limiter"
              THEN {NewRateLimiter(l) : l \in LimiterLimits}
              ELSE IF mode = "settle"
              THEN {NewRateLimiter(l) : l \in SettleLimits}
              ELSE IF mode = "settle32"
              THEN {[limit |-> SettleLimit32, y |-> FZero]}
              ELSE {ctl.rate_limiter}
    /\ steps = 0
    /\ obs = NoCall

\* One pass of the sampling loop: Control::control on the controller.
Tick ==
    /\ mode \in {"default", "example", "ramp"}
    /\ steps < MaxTicks
    /\ \E s \in Samples :
       \E r \in {control(ctl, s.i_s_abc, s.u_dc, s.w_m_ref, s.t_s)} :
           /\ ctl' = r.self
           /\ obs' = [op |-> "control", pre |-> ctl, in |-> s, out |-> r]
    /\ steps' = steps + 1
    /\ UNCHANGED <<mode, rl>>

\* One pass of the example's loop: the older control on the controller,
\* at the time stamp ctl.t + dt.
TickAt ==
    /\ mode = "stamped"
    /\ steps < MaxTicks
    /\ \E s \in StampedSamples :
       \E t \in {Add(ctl.t, s.dt)} :
       \E r \in {control_legacy(ctl, s.i_s_abc, s.u_dc, s.w_m_ref, t)} :
           /\ ctl' = r.self
           /\ obs' = [op |-> "control_at", pre |-> ctl,
                      in |-> [i_s_abc |-> s.i_s_abc, u_dc |-> s.u_dc,
                              w_m_ref |-> s.w_m_ref, t |-> t],
                      out |-> r]
    /\ steps' = steps + 1
    /\ UNCHANGED <<mode, rl>>

\* RateLimiter::rate_limit(t_s, u) on the RateLimiter rl.
RateLimit ==
    /\ mode = "limiter" \/ (mode = "settle" /\ steps = 0)
    /\ steps < MaxCalls
    /\ \E t_s \in LimiterPeriods, u \in LimiterInputs :
       \E y \in {rate_limit(rl.limit, rl.y, t_s, u)} :
           /\ rl' = [rl EXCEPT !.y = y]
           /\ obs' = [op |-> "rate_limit", pre |-> rl,
                      in |-> [t_s |-> t_s, u |-> u], out |-> y]
    /\ steps' = steps + 1
    /\ UNCHANGED <<mode, ctl>>

\* RateLimiter::rate_limit(t_s, u) called again and again with the same
\* t_s and u: the first of these calls chooses them, after at most one call
\* with other arguments.  y_0 is y before the first of them, n their number.
RateLimitAgain ==
    /\ mode = "settle"
    /\ obs.op = "rate_limit_again" => obs.n < MaxSettleCalls
    /\ \E t_s \in SettlePeriods, u \in SettleInputs :
       \E y \in {rate_limit(rl.limit, rl.y, t_s, u)} :
           /\ obs.op = "rate_limit_again" => obs.in = [t_s |-> t_s, u |-> u]
           /\ rl' = [rl EXCEPT !.y = y]
           /\ obs' = [op |-> "rate_limit_again", pre |-> rl,
                      in |-> [t_s |-> t_s, u |-> u], out |-> y,
                      y_0 |-> IF obs.op = "rate_limit_again"
                              THEN obs.y_0 ELSE rl.y,
                      n |-> IF obs.op = "rate_limit_again"
                            THEN obs.n + 1 ELSE 1]
    /\ steps' = steps + 1
    /\ UNCHANGED <<mode, ctl>>

\* The same calls in binary32: rl holds f32 values.  The first call may
\* be one with other arguments (n = 0); from n = 1 on t_s and u stay the
\* same.  exact: the result of each of these calls is the exact one.
RateLimitAgain32 ==
    /\ mode = "settle32"
    /\ obs.op = "rate_limit_f32" => obs.n < MaxSettleCalls
    /\ \E t_s \in SettlePeriods32, u \in SettleInputs32 :
       \E y \in {rate_limit_f32(rl.limit, rl.y, t_s, u)} :
       \E first \in IF obs = NoCall THEN {0, 1} ELSE {1} :
           /\ (obs.op = "rate_limit_f32" /\ obs.n >= 1) =>
                  obs.in = [t_s |-> t_s, u |-> u]
           /\ rl' = [rl EXCEPT !.y = y]
           /\ obs' = [op |-> "rate_limit_f32", pre |-> rl,
                      in |-> [t_s |-> t_s, u |-> u], out |-> y,
                      y_0 |-> IF obs = NoCall \/ obs.n = 0
                              THEN rl.y ELSE obs.y_0,
                      n |-> IF obs = NoCall THEN first ELSE obs.n + 1,
                      exact |->
                          /\ (obs = NoCall \/ obs.n = 0) \/ obs.exact
                          /\ FVal(y) = rate_limit(FVal(rl.limit), FVal(rl.y),
                                                  FVal(t_s), FVal(u))]
    /\ steps' = steps + 1
    /\ UNCHANGED <<mode, ctl>>

\* A call duty_ratios(u_s_ref, u_dc) with u_s_ref = re + j im.  The call is
\* computed in binary32 (out, with the modulation index m), and over the
\* reals (exact).  A function has no state: a run makes one call.
CallDutyRatios ==
    /\ mode = "functions"
    /\ obs = NoCall
    /\ \E re \in VoltageGrid, im \in VoltageGrid, u_dc \in BusVoltages :
         obs' = [op    |-> "duty_ratios",
                 in    |-> [re |-> re, im |-> im, u_dc |-> u_dc],
                 m     |-> ModulationIndex_f32(Symmetrized_f32(FCx(re, im)),
                                               FInt(u_dc)),
                 out   |-> duty_ratios_f32(FCx(re, im), FInt(u_dc)),
                 exact |-> duty_ratios(Cx(R(re), R(im)), R(u_dc))]
    /\ UNCHANGED <<mode, ctl, rl, steps>>

\* A call of stator_freq on a freshly built controller: of the later
\* variant, stator_freq(w_s_ref, i_s), or of the older one,
\* stator_freq(i_s, w_s_ref).
CallStatorFreq ==
    /\ mode = "functions"
    /\ obs = NoCall
    /\ \E w_s_ref \in FrequencyReferences, i_s \in Currents :
         \/ obs' = [op |-> "stator_freq", variant |-> "control",
                    self |-> DefaultControl,
                    in |-> [w_s_ref |-> w_s_ref, i_s |-> i_s],
                    out |-> stator_freq(DefaultControl, w_s_ref, i_s)]
         \/ \E c \in LegacyControls :
              obs' = [op |-> "stator_freq", variant |-> "legacy",
                      self |-> c,
                      in |-> [w_s_ref |-> w_s_ref, i_s |-> i_s],
                      out |-> stator_freq_legacy(c, i_s, w_s_ref)]
    /\ UNCHANGED <<mode, ctl, rl, steps>>

\* A call complex_to_abc(abc_to_complex(x).into()) on a triple x.
CallRoundTrip ==
    /\ mode = "functions"
    /\ obs = NoCall
    /\ \E x \in PhaseTriples :
       \E z \in {abc_to_complex(x)} :
           obs' = [op |-> "round_trip", in |-> x, z |-> z,
                   out |-> complex_to_abc(FromReal(z))]
    /\ UNCHANGED <<mode, ctl, rl, steps>>

\* A call voltage_reference(w_s, i_s) on a freshly built controller.
CallVoltageReference ==
    /\ mode = "functions"
    /\ obs = NoCall
    /\ \E c \in VoltageControls, w_s \in StatorFrequencies,
          i_s \in MeasuredCurrents :
           obs' = [op |-> "voltage_reference", self |-> c,
                   in |-> [w_s |-> w_s, i_s |-> i_s],
                   out |-> voltage_reference(c, w_s, i_s)]
    /\ UNCHANGED <<mode, ctl, rl, steps>>

\* The wrap of the tick applied to an angle, and to its own result.
CallWrap ==
    /\ mode = "functions"
    /\ obs = NoCall
    /\ \E theta \in WrapAngles :
       \E w \in {WrapAngle(theta)} :
           obs' = [op |-> "wrap", in |-> theta, out |-> w,
                   again |-> WrapAngle(w)]
    /\ UNCHANGED <<mode, ctl, rl, steps>>

Next ==
    \/ Tick
    \/ TickAt
    \/ RateLimit
    \/ RateLimitAgain
    \/ RateLimitAgain32
    \/ CallDutyRatios
    \/ CallStatorFreq
    \/ CallRoundTrip
    \/ CallVoltageReference
    \/ CallWrap

Spec == Init /\ [][Next]_vars

----------------------------------------------------------------------------
(* The stored angle.                                                       *)

InHalfOpen(x, lo, hi) == Ge(x, lo) /\ Lt(x, hi)

\* C1: after every tick, for any inputs and any sign of the stator
\* frequency, the stored angle theta_s lies in [-pi, pi).
C1_ThetaWrapped == InHalfOpen(ctl.theta_s, Neg(PI), PI)

----------------------------------------------------------------------------
(* The duty ratios.                                                        *)

InUnit(d)   == \A i \in 1..3 : Le(Zero, d[i]) /\ Le(d[i], One)
InUnit_f32(d) == \A i \in 1..3 : FLe(FZero, d[i]) /\ FLe(d[i], FOne)

\* C2: for every u_s_ref and every u_dc > 0 each of the three duty ratios
\* returned by duty_ratios, and so by a tick, lies in [0, 1] (bit-exactly,
\* for the f32 values duty_ratios returns).
C2_DutyInUnit ==
    /\ obs.op = "duty_ratios" => InUnit_f32(obs.out)
    /\ obs.op = "control" => InUnit(obs.out.d_abc)

\* The same over the reals: what the algorithm computes without rounding.
DutyInUnitExact ==
    /\ obs.op = "duty_ratios" => InUnit(obs.exact)
    /\ obs.op = "control" => InUnit(obs.out.d_abc)

----------------------------------------------------------------------------
(* The rate limiter.                                                       *)

\* The RateLimiter, period and input of the last rate-limiter call, made
\* directly or by a tick, and the value it returned.
LastLimiter == IF obs.op = "control" THEN obs.pre.rate_limiter ELSE obs.pre
LastPeriod  == obs.in.t_s
LastInput   == IF obs.op = "control" THEN obs.in.w_m_ref ELSE obs.in.u
LastOutput  == IF obs.op = "control" THEN obs.out.w_m_ref ELSE obs.out
LastRate    == Div(Sub(LastInput, LastLimiter.y), LastPeriod)

Limited == obs.op \in {"rate_limit", "control"}

C4_RateLimiter ==
    /\ (mode = "limiter" /\ steps = 0) => rl.y = Zero
    /\ obs.op = "rate_limit" =>
        /\ rl.y = obs.out
        /\ rl.limit = obs.pre.limit
        /\ obs.out =
             IF Gt(LastRate, obs.pre.limit)
             THEN Add(obs.pre.y, Mul(obs.in.t_s, obs.pre.limit))
             ELSE IF Lt(LastRate, Neg(obs.pre.limit))
             THEN Sub(obs.pre.y, Mul(obs.in.t_s, obs.pre.limit))
             ELSE obs.in.u
        /\ ( /\ obs.pre = NewRateLimiter(Mul(Mul(Two, PI), R(120)))
             /\ obs.in = [t_s |-> Q(1, 1000), u |-> R(1000)] )
           => Le(AbsR(Sub(obs.out, Q(754, 1000))), Q(1, 1000))

\* The example call of C4 has been made.
C4_Example ==
    /\ obs.op = "rate_limit"
    /\ obs.pre = NewRateLimiter(Mul(Mul(Two, PI), R(120)))
    /\ obs.in = [t_s |-> Q(1, 1000), u |-> R(1000)]
    /\ rl.y = Q(426, 565)

----------------------------------------------------------------------------
(* Clipping.                                                               *)

\* C7: whenever the largest phase voltage after zero-sequence injection
\* exceeds u_dc / 2 (m > 1), the largest duty ratio returned is exactly 1.0
\* and the smallest is exactly 0.0.
C7_ClippedToRails ==
    (obs.op = "duty_ratios" /\ FLt(FOne, obs.m)) =>
        /\ FMax3(obs.out) = FOne
        /\ FMin3(obs.out) = FZero

\* The same over the reals.
ClippedToRailsExact ==
    (obs.op = "duty_ratios" /\ FLt(FOne, obs.m)) =>
        /\ Max3(obs.exact) = One
        /\ Min3(obs.exact) = Zero

----------------------------------------------------------------------------
(* The stator frequency.                                                   *)

\* What C5 says stator_freq returns for the controller self.
StatedStatorFreq(self, w_s_ref, i_s) ==
    LET psi_r_ref == CSub(self.psi_s_ref, CScale(self.l_sgm, self.i_s_ref))
        sqr       == AbsSqr(psi_r_ref)
        w_r       == Div(Mul(self.r_r, CMul(i_s, CConj(psi_r_ref)).im), sqr)
    IN  IF Le(sqr, Zero)
        THEN [w_s |-> CZero, w_r |-> CZero]
        ELSE [w_s |-> CAdd(w_s_ref,
                           CMul(self.k_w, CSub(self.w_r_ref, FromReal(w_r)))),
              w_r |-> FromReal(w_r)]

\* C5: stator_freq returns the zero pair exactly when |psi_r_ref|^2 <= 0,
\* and otherwise the real slip estimate
\* w_r = r_r Im(i_s conj(psi_r_ref)) / |psi_r_ref|^2 with
\* w_s = w_s_ref + k_w (w_r_ref - w_r), psi_r_ref = psi_s_ref - l_sgm i_s_ref.
C5_StatorFreq ==
    /\ obs.op = "stator_freq" =>
         obs.out = StatedStatorFreq(obs.self, obs.in.w_s_ref, obs.in.i_s)
    /\ obs.op = "control" =>
         [w_s |-> obs.out.w_s, w_r |-> obs.out.w_r] =
             StatedStatorFreq(obs.pre, obs.out.w_s_ref, FromReal(obs.out.i_s))

\* The same for the calls of the later variant only
\* (src/src/control/induction/vhz.rs).
StatorFreqOfControlVariant ==
    (obs.op = "stator_freq" => obs.variant = "control") => C5_StatorFreq

----------------------------------------------------------------------------
(* The first tick at standstill.                                           *)

\* The tick of the worked example: a freshly built default controller,
\* speed reference 0, phase currents [0, 0, 0], u_dc = 540, t_s = 250 us.
ZeroTick ==
    /\ obs.op = "control"
    /\ obs.pre = DefaultControl
    /\ obs.in = [i_s_abc |-> Zero3, u_dc |-> R(540), w_m_ref |-> Zero,
                 t_s |-> Q(1, 4000)]

Within(x, y, eps) == Le(AbsR(Sub(x, y)), eps)

\* The duty ratios of that tick, to five places.
ZeroTickDuty == <<Q(52426, 100000), Q(50308, 100000), Q(47574, 100000)>>

\* C6 as stated: that tick returns duty ratios each within 1e-3 of 0.5.
C6_ZeroTickHalf ==
    ZeroTick => \A i \in 1..3 : Within(obs.out.d_abc[i], Half, Q(1, 1000))

\* C6 as amended: that tick returns duty ratios within 1e-3 of
\* (0.52426, 0.50308, 0.47574), each within 0.025 of 0.5; the voltage
\* reference is r_s (psi_s_ref / (l_m + l_sgm) + 1), not zero.
C6_ZeroTick ==
    ZeroTick =>
        /\ \A i \in 1..3 :
              /\ Within(obs.out.d_abc[i], ZeroTickDuty[i], Q(1, 1000))
              /\ Within(obs.out.d_abc[i], Half, Q(25, 1000))
        /\ obs.out.u_s_ref =
              CScale(Q(37, 10),
                     CAddR(One, CDivR(Cx(Q(104, 100), One), Q(434, 1000))))

C6_ZeroTickDone == ZeroTick /\ obs.out.d_abc[1] # obs.out.d_abc[3]

----------------------------------------------------------------------------
(* The space-vector round trip.                                            *)

ZeroSequence(x) == Div(Add(Add(x[1], x[2]), x[3]), Three)

WithoutZeroSequence(x) ==
    [i \in 1..3 |-> Sub(x[i], ZeroSequence(x))]

\* The space vector C8 states for the triple x.
StatedSpaceVector(x) ==
    Cx(Sub(Mul(Q(2, 3), x[1]), Mul(Q(1, 3), Add(x[2], x[3]))),
       Div(Sub(x[2], x[3]), Sqrt3))

\* C8: abc_to_complex(x) is (2/3) x_a - (1/3)(x_b + x_c)
\* + j (x_b - x_c) / sqrt 3, and complex_to_abc of it is x with its
\* zero-sequence component subtracted from each phase.
C8_RoundTrip ==
    obs.op = "round_trip" =>
        /\ FromReal(obs.z) = StatedSpaceVector(obs.in)
        /\ obs.out = WithoutZeroSequence(obs.in)

\* The same for the triples with x_b = x_c, whose space vector is real.
RoundTripOfRealVectors ==
    (obs.op = "round_trip" /\ obs.in[2] = obs.in[3]) =>
        /\ FromReal(obs.z) = StatedSpaceVector(obs.in)
        /\ obs.out = WithoutZeroSequence(obs.in)

----------------------------------------------------------------------------
(* The voltage reference.                                                  *)

\* What C9 says voltage_reference returns: each factor "1." read as j.
StatedVoltageReference(self, w_s, i_s) ==
    LET i_sd_nom == CDivR(self.psi_s_ref, Add(self.l_m, self.l_sgm))
        i_s_ref0 == CAdd(i_sd_nom, Cx(One, self.i_s_ref.im))
        k        == CScale(Mul(self.k_u, self.l_sgm),
                           CAddR(Div(self.r_r, self.l_m), MulJ(w_s)))
    IN  CAdd(CAdd(CScale(self.r_s, i_s_ref0),
                  CMul(MulJ(w_s), self.psi_s_ref)),
             CMul(k, CSub(self.i_s_ref, i_s)))

\* C9: voltage_reference(w_s, i_s) returns
\* r_s i_s_ref0 + j w_s psi_s_ref + k (i_s_ref - i_s) with
\* i_s_ref0 = psi_s_ref / (l_m + l_sgm) + (1 + j Im(i_s_ref)) and
\* k = k_u l_sgm (r_r / l_m + j w_s).
C9_VoltageReference ==
    /\ obs.op = "voltage_reference" =>
         obs.out = StatedVoltageReference(obs.self, obs.in.w_s,
                                          FromReal(obs.in.i_s))
    /\ obs.op = "control" =>
         obs.out.u_s_ref = StatedVoltageReference(obs.pre, obs.out.w_s,
                                                  FromReal(obs.out.i_s))

\* The same for the calls with w_s = 0, where the factors multiply zero.
VoltageReferenceAtStandstill ==
    (obs.op = "voltage_reference" /\ obs.in.w_s = CZero) =>
        obs.out = StatedVoltageReference(obs.self, obs.in.w_s,
                                         FromReal(obs.in.i_s))

----------------------------------------------------------------------------
(* The realized voltage.                                                   *)

\* What later ticks and the caller see of a tick's result.
Observable(r) ==
    [i_s_ref |-> r.self.i_s_ref, w_r_ref |-> r.self.w_r_ref,
     theta_s |-> r.self.theta_s, d_abc |-> r.d_abc]

\* The controller c with the modulator's stored voltages cleared.
Forgetting(c) ==
    [c EXCEPT !.pwm.realized_voltage = CZero, !.pwm.u_ref_lim_old = CZero]

\* The last tick's modulation index was above one: the voltage was clipped.
TickClipped ==
    /\ obs.op = "control"
    /\ Gt(ModulationIndex(
             Symmetrized(
               CScale(ExpF(ThetaComp(obs.in.t_s, obs.pre.theta_s,
                                     obs.out.w_s.re)),
                      obs.out.u_s_ref)),
             obs.in.u_dc), One)

\* C10: after a tick that clipped the voltage, the stored realized voltage
\* is fed back: some next tick gives another state or other duty ratios
\* than the same tick on the controller with the stored voltages cleared.
C10_RealizedVoltageFedBack ==
    (TickClipped /\ steps < MaxTicks /\ ctl.pwm # Forgetting(ctl).pwm) =>
        \E s \in Samples :
            Observable(control(ctl, s.i_s_abc, s.u_dc, s.w_m_ref, s.t_s)) #
            Observable(control(Forgetting(ctl), s.i_s_abc, s.u_dc,
                               s.w_m_ref, s.t_s))

\* Every tick gives the state and the duty ratios it gives on the
\* controller with the stored voltages cleared.
RealizedVoltageUnused ==
    obs.op = "control" =>
        Observable(obs.out) =
        Observable(control(Forgetting(obs.pre), obs.in.i_s_abc, obs.in.u_dc,
                           obs.in.w_m_ref, obs.in.t_s))

----------------------------------------------------------------------------
(* The parameters.                                                         *)

\* The motor and controller parameters of the controller c.
Parameters(c) ==
    [r_s |-> c.r_s, r_r |-> c.r_r, l_m |-> c.l_m, l_sgm |-> c.l_sgm,
     k_u |-> c.k_u, k_w |-> c.k_w, psi_s_ref |-> c.psi_s_ref,
     alpha_i |-> c.alpha_i, alpha_f |-> c.alpha_f,
     limit |-> c.rate_limiter.limit, is_six_step |-> c.pwm.is_six_step]

\* The fields a tick may change.
TickState ==
    {"i_s_ref", "w_r_ref", "theta_s", "t", "rate_limiter", "pwm"}

\* C11: after any sequence of ticks r_s, r_r, l_m, l_sgm, k_u, k_w,
\* psi_s_ref, alpha_i, alpha_f, the rate limiter's limit and is_six_step
\* have the values they had at construction; a tick changes no field but
\* i_s_ref, w_r_ref, theta_s, the stored time, the rate limiter's y and the
\* modulator's u_ref_lim_old and realized_voltage.
C11_ParametersConstant ==
    /\ Parameters(ctl) = Parameters(ConstructedControl(mode))
    /\ obs.op \in {"control", "control_at"} =>
         /\ Parameters(obs.out.self) = Parameters(obs.pre)
         /\ \A f \in DOMAIN obs.pre \ TickState :
               obs.out.self[f] = obs.pre[f]

\* Two ticks have been made and have changed the angle, the rate limiter's
\* output and the modulator's stored voltages.
C11_StateMutated ==
    /\ steps >= 2
    /\ obs.op \in {"control", "control_at"}
    /\ ctl.theta_s # ConstructedControl(mode).theta_s
    /\ ctl.rate_limiter.y # Zero
    /\ ctl.pwm.u_ref_lim_old # CZero
    /\ ctl.pwm.realized_voltage # ctl.pwm.u_ref_lim_old

----------------------------------------------------------------------------
(* The angle wrap.                                                         *)

\* C12: the wrap ((theta + pi) mod 2 pi) - pi of the tick is idempotent:
\* wrapping a wrapped angle, positive or negative, gives the same angle;
\* so the angle every tick stores is a fixed point of the wrap.
C12_WrapIdempotent ==
    /\ obs.op = "wrap" => obs.again = obs.out
    /\ obs.op \in {"control", "control_at"} =>
         WrapAngle(ctl.theta_s) = ctl.theta_s

\* An angle below -pi has been wrapped to another angle.
C12_NegativeWrapped ==
    /\ obs.op = "wrap"
    /\ Lt(obs.in, Neg(PI))
    /\ obs.out # obs.in

----------------------------------------------------------------------------
(* The stator frequency of a tick.                                         *)

\* The sample period of the last tick.
TickPeriod ==
    IF obs.op = "control_at" THEN obs.out.t_s ELSE obs.in.t_s

\* What the last tick's stator_freq returns when it is given the
\* slip-compensated reference as w_s_ref and the measured current as i_s.
TickFrequency ==
    LET w_s_ref == CAddR(obs.out.w_m_ref, obs.pre.w_r_ref)
        i_s     == FromReal(obs.out.i_s)
    IN  IF obs.op = "control_at"
        THEN stator_freq_legacy(obs.pre, i_s, w_s_ref)
        ELSE stator_freq(obs.pre, w_s_ref, i_s)

\* The last tick used that stator frequency: rate-limited reference,
\* w_s_ref = w_m_ref + w_r_ref, w_s and w_r of stator_freq, w_s integrated
\* into theta_s.
SlipCompensated ==
    /\ obs.out.w_m_ref = rate_limit(obs.pre.rate_limiter.limit,
                                    obs.pre.rate_limiter.y,
                                    TickPeriod, obs.in.w_m_ref)
    /\ obs.out.w_s_ref = CAddR(obs.out.w_m_ref, obs.pre.w_r_ref)
    /\ obs.out.w_s = TickFrequency.w_s
    /\ obs.out.w_r = TickFrequency.w_r
    /\ ctl.theta_s = WrapAngle(Add(obs.pre.theta_s,
                                   Mul(TickPeriod, TickFrequency.w_s.re)))

\* C13: in every tick the stator frequency given to the modulator and
\* integrated into theta_s is w_s_ref + k_w (w_r_ref - w_r), with
\* w_s_ref = rate-limited w_m_ref + w_r_ref and w_r estimated from the
\* measured current: stator_freq gets the reference as w_s_ref and the
\* current as i_s.
C13_SlipCompensated ==
    obs.op \in {"control", "control_at"} => SlipCompensated

\* The same for the ticks of the later controller
\* (src/src/control/induction/vhz.rs).
SlipCompensatedInControlVariant ==
    obs.op = "control" => SlipCompensated

----------------------------------------------------------------------------
(* The modulator state.                                                    *)

\* Pwm::new: both stored voltages are zero.
ZeroPwmState(p) == p.realized_voltage = CZero /\ p.u_ref_lim_old = CZero

\* The limited voltage u_ref_lim of the last tick's Pwm::duty_ratios call.
TickLimitedVoltage ==
    PwmOutput(TickPeriod, obs.out.u_s_ref, obs.in.u_dc, obs.pre.theta_s,
              obs.out.w_s.re).u_ref_lim

\* C14: the modulator starts from zero state, and after each
\* Pwm::duty_ratios call u_ref_lim_old is the u_ref_lim of this call and
\* realized_voltage is 0.5 (u_ref_lim_old before the call + u_ref_lim of
\* this call), the old value being that of the previous call.
C14_ModulatorState ==
    /\ steps = 0 => ZeroPwmState(ctl.pwm)
    /\ obs.op \in {"control", "control_at"} =>
         /\ steps = 1 => ZeroPwmState(obs.pre.pwm)
         /\ ctl.pwm.u_ref_lim_old = TickLimitedVoltage
         /\ ctl.pwm.realized_voltage =
              CScale(Half, CAdd(obs.pre.pwm.u_ref_lim_old,
                                TickLimitedVoltage))
         /\ ctl.pwm.is_six_step = obs.pre.pwm.is_six_step

\* A second call has been made, with another limited voltage than the
\* first, which was not zero.
C14_SecondCall ==
    /\ steps >= 2
    /\ obs.op \in {"control", "control_at"}
    /\ obs.pre.pwm.u_ref_lim_old # CZero
    /\ ctl.pwm.u_ref_lim_old # obs.pre.pwm.u_ref_lim_old

----------------------------------------------------------------------------
(* The time stamp.                                                         *)

\* C15: in the time-stamped controller the stored time is 0 before the
\* first tick; a tick called with time t uses t_s = t - (the time of the
\* previous tick), so the first uses t_s = t; it stores t and returns t_s
\* with the duty ratios.
C15_SamplePeriod ==
    /\ (mode = "stamped" /\ steps = 0) => ctl.t = Zero
    /\ obs.op = "control_at" =>
         /\ steps = 1 => (obs.pre.t = Zero /\ obs.out.t_s = obs.in.t)
         /\ obs.out.t_s = Sub(obs.in.t, obs.pre.t)
         /\ ctl.t = obs.in.t
         /\ obs.out.w_m_ref = rate_limit(obs.pre.rate_limiter.limit,
                                         obs.pre.rate_limiter.y,
                                         Sub(obs.in.t, obs.pre.t),
                                         obs.in.w_m_ref)
         /\ obs.out.d_abc =
              PwmOutput(Sub(obs.in.t, obs.pre.t), obs.out.u_s_ref,
                        obs.in.u_dc, obs.pre.theta_s, obs.out.w_s.re).d_abc

\* A second tick has been made, after a first at a time other than 0, and
\* its speed reference was rate limited.
C15_SecondTick ==
    /\ obs.op = "control_at"
    /\ steps >= 2
    /\ obs.pre.t # Zero
    /\ obs.out.t_s # obs.in.t
    /\ obs.out.w_m_ref # obs.in.w_m_ref

----------------------------------------------------------------------------
(* Settling of the rate limiter.                                           *)

\* The least integer not below x.
Ceil(x) == IF R(Trunc(x)) = x \/ Sign(x) < 0 THEN Trunc(x) ELSE Trunc(x) + 1

\* Of repeated calls with input u and period t_s on a limiter with the
\* given limit, call number n took y from y_pre to y_out, y_0 being y
\* before the first: y_out lies between y_pre and u and is no farther from
\* u, equals u from call ceil(|u - y_0| / (limit t_s)) on, and stays at u.
Settling(limit, t_s, u, y_0, n, y_pre, y_out) ==
    /\ Le(Min(y_pre, u), y_out)
    /\ Le(y_out, Max(y_pre, u))
    /\ Le(AbsR(Sub(u, y_out)), AbsR(Sub(u, y_pre)))
    /\ n >= Ceil(Div(AbsR(Sub(u, y_0)), Mul(limit, t_s))) => y_out = u
    /\ y_pre = u => y_out = u

\* The last of the repeated calls, over exact numbers and in binary32.
SettlingExact ==
    Settling(obs.pre.limit, obs.in.t_s, obs.in.u, obs.y_0, obs.n,
             obs.pre.y, obs.out)
SettlingF32 ==
    Settling(FVal(obs.pre.limit), FVal(obs.in.t_s), FVal(obs.in.u),
             FVal(obs.y_0), obs.n, FVal(obs.pre.y), FVal(obs.out))

SettledStays ==
    /\ obs.op \in {"rate_limit_again", "rate_limit_f32"}
    /\ obs.n >= 2
    /\ obs.pre.y = obs.in.u
    /\ obs.out = obs.in.u

=============================================================================
